---- MODULE Spec2Model ----
(***************************************************************************)
(* Prism gateway: the adapter registry (AdapterManager) and the streaming  *)
(* relay (GLMAdapter.ChatStream producer goroutine + ChatHandler consumer).*)
(*                                                                         *)
(* Two specifications share the variables:                                 *)
(*   Spec        the registry API called in any order (stream part idle)   *)
(*   SpecStream  one streaming request against a fixed registry            *)
(***************************************************************************)
EXTENDS Integers, Sequences, FiniteSets, TLC

(* ------------------------------ bounds -------------------------------- *)
\* number of distinct non-empty model names callers use
NumNames == 3
\* number of distinct adapter instances
NumAdapters == 2
\* number of lines the upstream body delivers at most (the [DONE] line included)
MaxLines == 12
\* number of lines the loop skips (malformed `data: ` lines and lines without
\* the `data: ` prefix) that the upstream delivers at most
MaxSkipped == 1
\* goroutines calling the registry concurrently
NumProcs == 2
\* model names configured for one adapter
MaxModels == 2
\* streaming requests in progress at the same time
NumReqs == 2
\* frames one upstream sends when several requests stream at once
MaxFrames == 2

(* ------------------------- program constants -------------------------- *)
\* make(chan *model.StreamResponse, 10)
ChanCap == 10

(* ------------------------------ values -------------------------------- *)
NamePool == <<"glm-4", "glm-4-flash", "glm-4-air", "glm-9", "doubao">>
AdapterPool == <<"glmAdapter", "adapterB", "adapterC", "adapterD">>

\* the empty model name ""
EmptyName == ""
\* the nil ModelAdapter interface value
NilAdapter == "nil"
\* the nil error
NoErr == "nil"

ModelNames == {EmptyName} \cup {NamePool[i] : i \in 1..NumNames}
Adapters == {AdapterPool[i] : i \in 1..NumAdapters}
AdapterArgs == {NilAdapter} \cup Adapters

\* the error values the registry returns (fmt.Errorf texts, by kind)
ErrEmptyName == "model name cannot be empty"
ErrNilAdapter == "adapter cannot be nil"
ErrAlreadyRegistered == "model already registered"
ErrNotFound == "model not found"
ErrUpstream == "adapter call failed"
ErrNoAdapters == "no adapters registered"
ErrUnhealthy == "adapter health check failed"

VARIABLES
    \* AdapterManager.adapters: map[string]ModelAdapter, as a function on the bound names
    adapters,
    \* the last registry call and what it returned
    ret,
    \* ChatHandler.handleStreamResponse: position of the handler goroutine
    hpc,
    \* how the ChatStream call ended: "none", "notFound", "transportErr", "non200", "ok"
    estab,
    \* position of the producer goroutine started by GLMAdapter.ChatStream
    ppc,
    \* the lines scanner.Scan() has returned so far, in order
    lines,
    \* the parsed frame the producer holds at its select statement (0: none)
    cur,
    \* streamChan: the frames buffered in the channel
    streamChan,
    \* number of close(streamChan) executed
    chanClosed,
    \* number of httpResp.Body.Close() executed
    bodyClosed,
    \* ctx.Done() is closed
    canceled,
    \* what the handler wrote to c.Writer, in order
    out,
    \* number of times the producer was at its select statement with ctx canceled
    attempts,
    \* the way the producer left its loop: "none", "done", "eof", "error", "cancel"
    exitPath,
    \* the slice the last ListModels call returned, as its caller holds it
    listed,
    \* the model names for which a Register call has returned nil
    registered,
    \* the calls the last operation made: registry lookups and adapter calls, in order
    calls,
    \* the request HandleChatCompletion received: bound or not, stream flag, model
    req,
    \* the response HandleChatCompletion wrote with c.JSON
    resp,
    \* AdapterManager.mu (sync.RWMutex): w is the goroutine that has called
    \* Lock and not yet Unlock (0: none), r the goroutines holding RLock
    mu,
    \* position of each goroutine calling the registry
    gpc,
    \* AdapterManager.HealthCheck: each goroutine's loop state (entries still to
    \* visit, error to return)
    gn,
    \* main: the configuration (source and cfg.Adapters: adapter name -> Models)
    cfg,
    \* main: position of the process ("load", "init", "serving", "fatal")
    spc,
    \* initHandlers: the entries of cfg.Adapters the loop has still to visit
    todo,
    \* initHandlers: the model names still to register for the current adapter
    pending,
    \* initHandlers: the adapter names skipped with a warning
    warned,
    \* an ErrorResponse value: Error.Type, Error.Param, Error.Code
    er,
    \* what GetHTTPStatus returned for it last (0: not called yet)
    httpStatus,
    \* concurrent streams: the channels made so far, each with its buffer and
    \* whether it is closed
    chans,
    \* concurrent streams: the producer goroutines started so far, each with
    \* the channel its closure captured, its position and its send count
    prods,
    \* concurrent streams: each request's handler (position, how ChatStream
    \* ended, the channel it was returned, the frames it received)
    hs

regVars == <<adapters, ret, listed, registered>>
streamVars == <<hpc, estab, ppc, lines, cur, streamChan, chanClosed, bodyClosed,
                canceled, out, attempts, exitPath>>
handlerVars == <<req, resp>>
lockVars == <<mu, gpc, gn>>
startVars == <<cfg, spc, todo, pending, warned>>
errVars == <<er, httpStatus>>
multiVars == <<chans, prods, hs>>
vars == <<adapters, ret, hpc, estab, ppc, lines, cur, streamChan, chanClosed,
          bodyClosed, canceled, out, attempts, exitPath, listed, registered,
          calls, req, resp, mu, gpc, gn, cfg, spc, todo, pending, warned,
          er, httpStatus, chans, prods, hs>>

\* what a registry call leaves alone besides the registry itself
registryFrame == <<streamVars, handlerVars, lockVars, startVars, errVars, multiVars>>
\* what a step of the producer or of the receive loop leaves alone
relayFrame == <<regVars, handlerVars, calls, lockVars, startVars, errVars, multiVars>>
\* what the handler leaves alone besides the request, the response and the stream
handlerFrame == <<regVars, lockVars, startVars, errVars, multiVars>>

\* the goroutines that call the registry
Goroutines == 1..NumProcs

\* the adapter names a configuration file may use: the one initHandlers
\* implements and one it does not
AdapterNames == {"glm", "doubao"}

\* no configuration: the process is not in its startup
NoConfig == [source |-> "none", adapters |-> <<>>]

(* ============================ the registry ============================ *)

\* NewAdapterManager: an empty map
NewAdapterManager == [n \in {} |-> NilAdapter]

\* variant: the assignment rebuilds the map around the new entry
MapSet_Fresh(mp, modelName, adapter) ==
    [n \in {modelName} |-> adapter]

\* m.adapters[modelName] = adapter
MapSet(mp, modelName, adapter) ==
    [n \in (DOMAIN mp) \cup {modelName} |-> IF n = modelName THEN adapter ELSE mp[n]]

\* the result record of a registry call
Ret(op, name, arg, val, err, list) ==
    [op |-> op, name |-> name, arg |-> arg, val |-> val, err |-> err, list |-> list]

NoRet == Ret("none", EmptyName, NilAdapter, NilAdapter, NoErr, {})

\* variant: no `exists` check, a second registration overwrites the first
RegisterErr_Overwrite(mp, modelName, adapter) ==
    IF modelName = EmptyName THEN ErrEmptyName
    ELSE IF adapter = NilAdapter THEN ErrNilAdapter
    ELSE NoErr

\* variant: an adapter instance may be bound to one name only
RegisterErr_UniqueAdapter(mp, modelName, adapter) ==
    IF modelName = EmptyName THEN ErrEmptyName
    ELSE IF adapter = NilAdapter THEN ErrNilAdapter
    ELSE IF modelName \in DOMAIN mp THEN ErrAlreadyRegistered
    ELSE IF \E n \in DOMAIN mp : mp[n] = adapter THEN ErrAlreadyRegistered
    ELSE NoErr

\* variant: no check of the model name
RegisterErr_NoNameCheck(mp, modelName, adapter) ==
    IF adapter = NilAdapter THEN ErrNilAdapter
    ELSE IF modelName \in DOMAIN mp THEN ErrAlreadyRegistered
    ELSE NoErr

\* the error Register returns for (modelName, adapter) on map mp
RegisterErr(mp, modelName, adapter) ==
    IF modelName = EmptyName THEN ErrEmptyName
    ELSE IF adapter = NilAdapter THEN ErrNilAdapter
    ELSE IF modelName \in DOMAIN mp THEN ErrAlreadyRegistered
    ELSE NoErr

\* variant: a successful Register also binds the first model name to the adapter
RegisterMap_AlsoDefault(mp, modelName, adapter) ==
    IF RegisterErr(mp, modelName, adapter) = NoErr
    THEN MapSet(MapSet(mp, modelName, adapter), NamePool[1], adapter)
    ELSE mp

\* the map after Register(modelName, adapter) on map mp
RegisterMap(mp, modelName, adapter) ==
    IF RegisterErr(mp, modelName, adapter) = NoErr
    THEN MapSet(mp, modelName, adapter)
    ELSE mp

\* AdapterManager.Register
Register(modelName, adapter) ==
    /\ adapters' = RegisterMap(adapters, modelName, adapter)
    /\ ret' = Ret("Register", modelName, adapter, NilAdapter,
                  RegisterErr(adapters, modelName, adapter), {})
    /\ registered' = IF RegisterErr(adapters, modelName, adapter) = NoErr
                     THEN registered \cup {modelName} ELSE registered
    /\ calls' = <<>>
    /\ UNCHANGED listed
    /\ UNCHANGED registryFrame

\* variant: the `exists` result of the map read is ignored
GetAdapterResult_NoCheck(mp, modelName) ==
    [adapter |-> IF modelName \in DOMAIN mp THEN mp[modelName] ELSE NilAdapter,
     err |-> NoErr]

\* what GetAdapter(modelName) returns on map mp: the adapter and the error
GetAdapterResult(mp, modelName) ==
    IF modelName \in DOMAIN mp
    THEN [adapter |-> mp[modelName], err |-> NoErr]
    ELSE [adapter |-> NilAdapter, err |-> ErrNotFound]

\* AdapterManager.GetAdapter
GetAdapter(modelName) ==
    LET r == GetAdapterResult(adapters, modelName) IN
    /\ ret' = Ret("GetAdapter", modelName, NilAdapter, r.adapter, r.err, {})
    /\ calls' = <<>>
    /\ UNCHANGED <<adapters, listed, registered>>
    /\ UNCHANGED registryFrame

\* the orders in which a `range` over a map with key set S may visit the keys
Orders(S) ==
    {o \in [1..Cardinality(S) -> S] : \A i, j \in 1..Cardinality(S) : o[i] = o[j] => i = j}

\* the elements of the sequence q
Range(q) == {q[i] : i \in 1..Len(q)}

\* variant: make([]string, len(m.adapters)) instead of make([]string, 0, len(m.adapters))
ListModelsSlice_LenNotCap(order) ==
    [i \in 1..Len(order) |-> EmptyName] \o order

\* models := make([]string, 0, len(m.adapters)); append each key in range order
ListModelsSlice(order) == order

\* AdapterManager.ListModels: the keys of the map in its iteration order
ListModels ==
    /\ \E order \in Orders(DOMAIN adapters) :
          /\ listed' = ListModelsSlice(order)
          /\ ret' = Ret("ListModels", EmptyName, NilAdapter, NilAdapter, NoErr,
                        Range(ListModelsSlice(order)))
    /\ calls' = <<>>
    /\ UNCHANGED <<adapters, registered>>
    /\ UNCHANGED registryFrame

\* one entry of the call log: who was called, which method, for which model
\* name, and what came back
Call(target, method, name, result) ==
    [target |-> target, method |-> method, name |-> name, result |-> result]

\* variant: an unknown model falls back to some registered adapter
ManagerDispatch_Fallback(mp, method, modelName, callOk) ==
    LET r == GetAdapterResult(mp, modelName)
        res == IF callOk THEN NoErr ELSE ErrUpstream
    IN IF r.err # NoErr /\ DOMAIN mp # {}
       THEN LET n == CHOOSE n \in DOMAIN mp : TRUE IN
            [adapter |-> mp[n], err |-> res,
             calls |-> <<Call("registry", "GetAdapter", modelName, r.err),
                         Call(mp[n], method, modelName, res)>>]
       ELSE IF r.err # NoErr
       THEN [adapter |-> NilAdapter, err |-> r.err,
             calls |-> <<Call("registry", "GetAdapter", modelName, r.err)>>]
       ELSE [adapter |-> r.adapter, err |-> res,
             calls |-> <<Call("registry", "GetAdapter", modelName, NoErr),
                         Call(r.adapter, method, modelName, res)>>]

\* AdapterManager.Chat / ChatStream on map mp: GetAdapter(req.Model); on an
\* error return it (wrapped) without calling an adapter; otherwise call the
\* adapter's method once and return what it returns. callOk: the adapter's
\* call succeeds.
ManagerDispatch(mp, method, modelName, callOk) ==
    LET r == GetAdapterResult(mp, modelName)
        res == IF callOk THEN NoErr ELSE ErrUpstream
    IN IF r.err # NoErr
       THEN [adapter |-> NilAdapter, err |-> r.err,
             calls |-> <<Call("registry", "GetAdapter", modelName, r.err)>>]
       ELSE [adapter |-> r.adapter, err |-> res,
             calls |-> <<Call("registry", "GetAdapter", modelName, NoErr),
                         Call(r.adapter, method, modelName, res)>>]

\* AdapterManager.Chat: look the adapter up by req.Model, forward the call;
\* the adapter's own call succeeds or fails (callOk)
Chat(modelName, callOk) ==
    LET d == ManagerDispatch(adapters, "Chat", modelName, callOk) IN
    /\ ret' = Ret("Chat", modelName, NilAdapter, d.adapter, d.err, {})
    /\ calls' = d.calls
    /\ UNCHANGED <<adapters, listed, registered>>
    /\ UNCHANGED registryFrame

\* AdapterManager.ChatStream: look the adapter up by req.Model, forward the call
ChatStream(modelName, callOk) ==
    LET d == ManagerDispatch(adapters, "ChatStream", modelName, callOk) IN
    /\ ret' = Ret("ChatStream", modelName, NilAdapter, d.adapter, d.err, {})
    /\ calls' = d.calls
    /\ UNCHANGED <<adapters, listed, registered>>
    /\ UNCHANGED registryFrame

\* variant: the loop keeps going after a failure and reports the last probe's result
ProbeWalk_LastWins(order, mp, unhealthy) ==
    LET last == order[Len(order)] IN
    [name |-> IF mp[last] \in unhealthy THEN last ELSE EmptyName,
     err |-> IF mp[last] \in unhealthy THEN ErrUnhealthy ELSE NoErr]

\* the loop of HealthCheck over the keys in the given order: probe each
\* adapter, return at the first failing probe with that model's name
RECURSIVE ProbeWalk(_, _, _)
ProbeWalk(order, mp, unhealthy) ==
    IF order = <<>>
    THEN [name |-> EmptyName, err |-> NoErr]
    ELSE IF mp[Head(order)] \in unhealthy
    THEN [name |-> Head(order), err |-> ErrUnhealthy]
    ELSE ProbeWalk(Tail(order), mp, unhealthy)

\* the bound names whose adapter fails its probe
FailingModels(mp, unhealthy) == {n \in DOMAIN mp : mp[n] \in unhealthy}

\* AdapterManager.HealthCheck: fails on an empty map; otherwise probes the
\* adapters in map iteration order (unspecified) and returns at the first
\* failure, naming that model. unhealthy: the adapters whose probe fails;
\* the names bound to them are kept with the result.
HealthCheck(unhealthy) ==
    /\ IF DOMAIN adapters = {}
       THEN ret' = Ret("HealthCheck", EmptyName, NilAdapter, NilAdapter, ErrNoAdapters, {})
       ELSE \E order \in Orders(DOMAIN adapters) :
              LET w == ProbeWalk(order, adapters, unhealthy) IN
              ret' = Ret("HealthCheck", w.name, NilAdapter,
                         IF w.err = NoErr THEN NilAdapter ELSE adapters[w.name],
                         w.err, FailingModels(adapters, unhealthy))
    /\ calls' = <<>>
    /\ UNCHANGED <<adapters, listed, registered>>
    /\ UNCHANGED registryFrame

(* ========================= the streaming relay ======================== *)

\* one line of the upstream body as scanner.Text() returns it: the line's
\* prefix, the kind of text after it, and the line's number in the body
\* (a well-formed frame carries its line number as its content)
Line(prefix, text, id) == [prefix |-> prefix, text |-> text, id |-> id]

\* strings.HasPrefix(line, "data: ")
HasDataPrefix(line) == line.prefix = "data: "

\* data == "[DONE]"
IsDoneMarker(line) == line.text = "[DONE]"

\* json.Unmarshal([]byte(data), &streamResp): succeeds on a JSON object only
UnmarshalOk(line) == line.text = "{json}"

\* the StreamResponse json.Unmarshal yields
Unmarshal(line) == line.id

\* variant: a line that does not parse ends the loop
LineAction_BadIsFatal(line) ==
    IF ~HasDataPrefix(line) THEN "continue"
    ELSE IF IsDoneMarker(line) THEN "break"
    ELSE IF ~UnmarshalOk(line) THEN "break"
    ELSE "select"

\* what the loop body does with a line: "continue" (not a data line, or a
\* payload that does not parse), "break" ([DONE]), "select" (a parsed frame)
LineAction(line) ==
    IF ~HasDataPrefix(line) THEN "continue"
    ELSE IF IsDoneMarker(line) THEN "break"
    ELSE IF ~UnmarshalOk(line) THEN "continue"
    ELSE "select"

\* the handler's wire frame for a StreamResponse: "data: " + json.Marshal + "\n\n"
DataFrame(streamResp) == [type |-> "data", id |-> streamResp]

\* "data: [DONE]\n\n"
DoneFrame == [type |-> "done", id |-> 0]

\* sendSSEError: "data: " + json.Marshal(NewAPIError(message)) + "\n\n"
ErrorFrame == [type |-> "error", id |-> 0]

\* the well-formed frames among the lines ls, in order: they are what the
\* producer parses and hands to its select statement
RECURSIVE ParsedFrames(_)
ParsedFrames(ls) ==
    IF ls = <<>> THEN <<>>
    ELSE LET l == ls[Len(ls)]
             front == ParsedFrames(SubSeq(ls, 1, Len(ls) - 1))
         IN IF HasDataPrefix(l) /\ ~IsDoneMarker(l) /\ UnmarshalOk(l)
            THEN Append(front, l.id)
            ELSE front

\* a `data: ` line that is neither the marker nor a JSON object
IsMalformed(l) == HasDataPrefix(l) /\ ~IsDoneMarker(l) /\ ~UnmarshalOk(l)

\* a line without the `data: ` prefix (the blank line after each frame)
IsOther(l) == ~HasDataPrefix(l)

\* number of lines in ls that the loop skips
RECURSIVE CountSkipped(_)
CountSkipped(ls) ==
    IF ls = <<>> THEN 0
    ELSE CountSkipped(Tail(ls))
            + (IF IsMalformed(Head(ls)) \/ IsOther(Head(ls)) THEN 1 ELSE 0)

\* the lines the upstream may deliver next, within the bounds
NextLines ==
    LET id == Len(lines) + 1 IN
    {Line("data: ", "{json}", id), Line("data: ", "[DONE]", id)}
    \cup (IF CountSkipped(lines) < MaxSkipped
          THEN {Line("data: ", "{bad", id), Line("", "", id)} ELSE {})

\* the frames the handler has written as data frames, in order
RECURSIVE WrittenData(_)
WrittenData(o) ==
    IF o = <<>> THEN <<>>
    ELSE IF Head(o).type = "data" THEN <<Head(o).id>> \o WrittenData(Tail(o))
    ELSE WrittenData(Tail(o))

\* number of writes of the given type in o
RECURSIVE CountType(_, _)
CountType(o, t) ==
    IF o = <<>> THEN 0
    ELSE CountType(Tail(o), t) + (IF Head(o).type = t THEN 1 ELSE 0)

(* ---------------------------- the handler ----------------------------- *)

\* the error types of model/error.go
ErrorTypeInvalidRequest == "invalid_request_error"
ErrorTypeAuthentication == "authentication_error"
ErrorTypePermission == "permission_error"
ErrorTypeNotFound == "not_found_error"
ErrorTypeRateLimit == "rate_limit_error"
ErrorTypeAPIError == "api_error"
ErrorTypeTimeout == "timeout_error"
ErrorTypeServerError == "server_error"

\* variant: a timeout is reported as a gateway timeout
GetHTTPStatus_Timeout504(errType) ==
    IF errType = ErrorTypeInvalidRequest THEN 400
    ELSE IF errType = ErrorTypeAuthentication THEN 401
    ELSE IF errType = ErrorTypePermission THEN 403
    ELSE IF errType = ErrorTypeNotFound THEN 404
    ELSE IF errType = ErrorTypeRateLimit THEN 429
    ELSE IF errType = ErrorTypeTimeout THEN 504
    ELSE 500

\* ErrorResponse.GetHTTPStatus: the switch on e.Error.Type
GetHTTPStatus(errType) ==
    IF errType = ErrorTypeInvalidRequest THEN 400
    ELSE IF errType = ErrorTypeAuthentication THEN 401
    ELSE IF errType = ErrorTypePermission THEN 403
    ELSE IF errType = ErrorTypeNotFound THEN 404
    ELSE IF errType = ErrorTypeRateLimit THEN 429
    ELSE IF errType = ErrorTypeTimeout THEN 408
    ELSE IF errType \in {ErrorTypeServerError, ErrorTypeAPIError} THEN 500
    ELSE 500

\* no ChatResponse
NoBody == [id |-> "", model |-> ""]

\* the ChatResponse the upstream returns for a successful Chat call
UpstreamResponse(modelName) == [id |-> "chatcmpl-1", model |-> modelName]

\* c.JSON(status, body) with a ChatResponse, or with an ErrorResponse of type errType
JSONResponse(status, errType, body) == [status |-> status, type |-> errType, body |-> body]

\* c.JSON(errResp.GetHTTPStatus(), errResp)
JSONError(errType) == JSONResponse(GetHTTPStatus(errType), errType, NoBody)

\* nothing written with c.JSON
NoResp == JSONResponse(0, "none", NoBody)

\* no request received yet
NoReq == [bindOk |-> FALSE, stream |-> FALSE, model |-> EmptyName]

\* the outcomes of the upstream HTTP call an adapter makes
Outcomes == {"transportErr", "non200", "ok"}

\* h.adapter.Chat / h.adapter.ChatStream: the handler calls the manager once
HandlerCall(method, modelName, outcome) ==
    LET d == ManagerDispatch(adapters, method, modelName, outcome = "ok") IN
    [err |-> d.err,
     calls |-> <<Call("manager", method, modelName, d.err)>> \o d.calls]

\* variant: no return after sendSSEError, the handler goes on to the end marker
StreamErrorOutput_FallThrough(o) == o \o <<ErrorFrame, DoneFrame>>

\* what the handler has written once ChatStream returned an error:
\* sendSSEError, return
StreamErrorOutput(o) == Append(o, ErrorFrame)

\* handleStreamResponse up to the return of h.adapter.ChatStream, which is
\* AdapterManager.ChatStream -> GLMAdapter.ChatStream. outcome is what the
\* upstream call does: "transportErr" (client.Do fails), "non200", "ok".
HandleStreamCall(modelName, outcome) ==
    LET c == HandlerCall("ChatStream", modelName, outcome) IN
    /\ hpc = "start"
    /\ calls' = c.calls
    /\ IF c.err = ErrNotFound
       THEN \* manager: unknown model; handler: sendSSEError and return
            /\ estab' = "notFound"
            /\ out' = StreamErrorOutput(out)
            /\ hpc' = "done"
            /\ UNCHANGED <<ppc, bodyClosed>>
       ELSE IF outcome = "transportErr"
       THEN \* client.Do failed: no response, no body
            /\ estab' = "transportErr"
            /\ out' = StreamErrorOutput(out)
            /\ hpc' = "done"
            /\ UNCHANGED <<ppc, bodyClosed>>
       ELSE IF outcome = "non200"
       THEN \* io.ReadAll; httpResp.Body.Close(); return error
            /\ estab' = "non200"
            /\ bodyClosed' = bodyClosed + 1
            /\ out' = StreamErrorOutput(out)
            /\ hpc' = "done"
            /\ UNCHANGED ppc
       ELSE \* make(chan, 10); go func(){...}(); return streamChan, nil
            /\ estab' = "ok"
            /\ ppc' = "scan"
            /\ hpc' = "recv"
            /\ UNCHANGED <<out, bodyClosed>>
    /\ UNCHANGED <<lines, cur, streamChan, chanClosed, canceled, attempts, exitPath>>
    /\ UNCHANGED resp
    /\ UNCHANGED handlerFrame

\* variant: one retry when the first Chat call fails
HandleNormalResponse_Retry(modelName, outcome) ==
    LET c == HandlerCall("Chat", modelName, outcome) IN
    /\ hpc = "start"
    /\ calls' = IF c.err # NoErr THEN c.calls \o c.calls ELSE c.calls
    /\ resp' = IF c.err # NoErr
               THEN JSONError(ErrorTypeAPIError)
               ELSE JSONResponse(200, "none", UpstreamResponse(modelName))
    /\ hpc' = "done"
    /\ UNCHANGED <<estab, ppc, lines, cur, streamChan, chanClosed, bodyClosed,
                   canceled, out, attempts, exitPath>>
    /\ UNCHANGED handlerFrame

\* handleNormalResponse: h.adapter.Chat once; on an error NewAPIError and
\* c.JSON(errResp.GetHTTPStatus(), errResp); otherwise c.JSON(200, resp)
HandleNormalResponse(modelName, outcome) ==
    LET c == HandlerCall("Chat", modelName, outcome) IN
    /\ hpc = "start"
    /\ calls' = c.calls
    /\ resp' = IF c.err # NoErr
               THEN JSONError(ErrorTypeAPIError)
               ELSE JSONResponse(200, "none", UpstreamResponse(modelName))
    /\ hpc' = "done"
    /\ UNCHANGED <<estab, ppc, lines, cur, streamChan, chanClosed, bodyClosed,
                   canceled, out, attempts, exitPath>>
    /\ UNCHANGED handlerFrame

\* the branch of HandleChatCompletion taken when c.ShouldBindJSON fails:
\* NewInvalidRequestError, c.JSON, return
HandleBindFailure ==
    /\ hpc = "start"
    /\ resp' = JSONError(ErrorTypeInvalidRequest)
    /\ calls' = <<>>
    /\ hpc' = "done"
    /\ UNCHANGED <<estab, ppc, lines, cur, streamChan, chanClosed, bodyClosed,
                   canceled, out, attempts, exitPath>>
    /\ UNCHANGED handlerFrame

\* variant: the binding error is only looked at for non-stream requests
HandleChatCompletion_StreamSkipsCheck(bindOk, stream, modelName, outcome) ==
    /\ req' = [bindOk |-> bindOk, stream |-> stream, model |-> modelName]
    /\ IF ~bindOk /\ ~stream THEN HandleBindFailure
       ELSE IF stream THEN HandleStreamCall(modelName, outcome)
       ELSE HandleNormalResponse(modelName, outcome)

\* HandleChatCompletion: bind the body (bindOk: it binds; stream, modelName:
\* the body's stream flag and model), then branch on req.Stream
HandleChatCompletion(bindOk, stream, modelName, outcome) ==
    /\ req' = [bindOk |-> bindOk, stream |-> stream, model |-> modelName]
    /\ IF ~bindOk THEN HandleBindFailure
       ELSE IF stream THEN HandleStreamCall(modelName, outcome)
       ELSE HandleNormalResponse(modelName, outcome)

\* one iteration of `for streamResp := range streamChan`: receive a frame,
\* marshal it (never fails on a value json.Unmarshal produced), write it, flush
HandleStreamRecv ==
    /\ hpc = "recv"
    /\ Len(streamChan) > 0
    /\ out' = Append(out, DataFrame(Head(streamChan)))
    /\ streamChan' = Tail(streamChan)
    /\ UNCHANGED <<hpc, estab, ppc, lines, cur, chanClosed, bodyClosed, canceled,
                   attempts, exitPath>>
    /\ UNCHANGED relayFrame

\* variant: the loop ends as soon as the channel is closed, buffered frames or not
HandleStreamEnd_OnClose ==
    /\ hpc = "recv"
    /\ chanClosed > 0
    /\ out' = Append(out, DoneFrame)
    /\ hpc' = "done"
    /\ UNCHANGED <<estab, ppc, lines, cur, streamChan, chanClosed, bodyClosed,
                   canceled, attempts, exitPath>>
    /\ UNCHANGED relayFrame

\* variant: the handler also leaves its loop when the request context is canceled
HandleStreamEnd_OnCancel ==
    /\ hpc = "recv"
    /\ canceled \/ (Len(streamChan) = 0 /\ chanClosed > 0)
    /\ out' = Append(out, DoneFrame)
    /\ hpc' = "done"
    /\ UNCHANGED <<estab, ppc, lines, cur, streamChan, chanClosed, bodyClosed,
                   canceled, attempts, exitPath>>
    /\ UNCHANGED relayFrame

\* the range loop ends on the closed, drained channel; write "data: [DONE]\n\n"
HandleStreamEnd ==
    /\ hpc = "recv"
    /\ Len(streamChan) = 0
    /\ chanClosed > 0
    /\ out' = Append(out, DoneFrame)
    /\ hpc' = "done"
    /\ UNCHANGED <<estab, ppc, lines, cur, streamChan, chanClosed, bodyClosed,
                   canceled, attempts, exitPath>>
    /\ UNCHANGED relayFrame

(* ---------------------------- the producer ---------------------------- *)

\* scanner.Scan() returns true with the next line, and the loop body runs up
\* to its continue, break or select. After a cancellation the scanner still
\* returns the lines it has buffered.
ProducerScan(line) ==
    /\ ppc = "scan"
    /\ Len(lines) < MaxLines
    /\ lines' = Append(lines, line)
    /\ IF LineAction(line) = "continue"
       THEN \* next iteration
            UNCHANGED <<ppc, cur, attempts, exitPath>>
       ELSE IF LineAction(line) = "break"
       THEN \* scanner.Err() is nil; the deferred calls run
            /\ ppc' = "closeChan"
            /\ exitPath' = "done"
            /\ UNCHANGED <<cur, attempts>>
       ELSE \* reach the select statement with the parsed frame
            /\ cur' = Unmarshal(line)
            /\ ppc' = "select"
            /\ attempts' = IF canceled THEN attempts + 1 ELSE attempts
            /\ UNCHANGED exitPath
    /\ UNCHANGED <<hpc, estab, streamChan, chanClosed, bodyClosed, canceled, out>>
    /\ UNCHANGED relayFrame

\* variant: on a read error the producer puts a zero-value frame on the
\* channel, the "special error response" the comment in the code considers
ProducerScanEnd_SendsErrorFrame(readErr) ==
    /\ ppc = "scan"
    /\ ppc' = "closeChan"
    /\ exitPath' = IF readErr THEN "error" ELSE "eof"
    /\ streamChan' = IF readErr /\ Len(streamChan) < ChanCap
                     THEN Append(streamChan, 0) ELSE streamChan
    /\ UNCHANGED <<hpc, estab, lines, cur, chanClosed, bodyClosed,
                   canceled, out, attempts>>
    /\ UNCHANGED relayFrame

\* scanner.Scan() returns false: end of input (readErr = FALSE, scanner.Err()
\* is nil) or a read error (readErr = TRUE, `return`); the deferred calls run
ProducerScanEnd(readErr) ==
    /\ ppc = "scan"
    /\ ppc' = "closeChan"
    /\ exitPath' = IF readErr THEN "error" ELSE "eof"
    /\ UNCHANGED <<hpc, estab, lines, cur, streamChan, chanClosed, bodyClosed,
                   canceled, out, attempts>>
    /\ UNCHANGED relayFrame

\* variant: a non-blocking send, the frame is discarded when the buffer is full
ProducerSend_DropWhenFull ==
    /\ ppc = "select"
    /\ streamChan' = IF Len(streamChan) < ChanCap
                     THEN Append(streamChan, cur) ELSE streamChan
    /\ cur' = 0
    /\ ppc' = "scan"
    /\ UNCHANGED <<hpc, estab, lines, chanClosed, bodyClosed, canceled, out,
                   attempts, exitPath>>
    /\ UNCHANGED relayFrame

\* select, case streamChan <- &streamResp: possible when the buffer has room
ProducerSend ==
    /\ ppc = "select"
    /\ Len(streamChan) < ChanCap
    /\ streamChan' = Append(streamChan, cur)
    /\ cur' = 0
    /\ ppc' = "scan"
    /\ UNCHANGED <<hpc, estab, lines, chanClosed, bodyClosed, canceled, out,
                   attempts, exitPath>>
    /\ UNCHANGED relayFrame

\* variant: the return on cancellation skips the cleanup (no defer)
ProducerCtxDone_NoCleanup ==
    /\ ppc = "select"
    /\ canceled
    /\ cur' = 0
    /\ ppc' = "exited"
    /\ exitPath' = "cancel"
    /\ UNCHANGED <<hpc, estab, lines, streamChan, chanClosed, bodyClosed, canceled,
                   out, attempts>>
    /\ UNCHANGED relayFrame

\* select, case <-ctx.Done(): return; the deferred calls run
ProducerCtxDone ==
    /\ ppc = "select"
    /\ canceled
    /\ cur' = 0
    /\ ppc' = "closeChan"
    /\ exitPath' = "cancel"
    /\ UNCHANGED <<hpc, estab, lines, streamChan, chanClosed, bodyClosed, canceled,
                   out, attempts>>
    /\ UNCHANGED relayFrame

\* variant: the goroutine has no deferred close of the channel
ProducerCloseChan_Skipped ==
    /\ ppc = "closeChan"
    /\ ppc' = "closeBody"
    /\ UNCHANGED <<hpc, estab, lines, cur, streamChan, chanClosed, bodyClosed,
                   canceled, out, attempts, exitPath>>
    /\ UNCHANGED relayFrame

\* defer close(streamChan): registered last, runs first
ProducerCloseChan ==
    /\ ppc = "closeChan"
    /\ chanClosed' = chanClosed + 1
    /\ ppc' = "closeBody"
    /\ UNCHANGED <<hpc, estab, lines, cur, streamChan, bodyClosed, canceled, out,
                   attempts, exitPath>>
    /\ UNCHANGED relayFrame

\* defer httpResp.Body.Close(): registered first, runs last
ProducerCloseBody ==
    /\ ppc = "closeBody"
    /\ bodyClosed' = bodyClosed + 1
    /\ ppc' = "exited"
    /\ UNCHANGED <<hpc, estab, lines, cur, streamChan, chanClosed, canceled, out,
                   attempts, exitPath>>
    /\ UNCHANGED relayFrame

\* the request context is canceled (the client went away) while the handler
\* is still running; a producer waiting at its select is at a send attempt
Cancel ==
    /\ ~canceled
    /\ hpc = "recv"
    /\ canceled' = TRUE
    /\ attempts' = IF ppc = "select" THEN 1 ELSE 0
    /\ UNCHANGED <<hpc, estab, ppc, lines, cur, streamChan, chanClosed, bodyClosed,
                   out, exitPath>>
    /\ UNCHANGED relayFrame

(* ===================== the registry lock, step by step ================= *)

\* what a step of a goroutine in the registry leaves alone besides the map
lockFrame == <<ret, listed, calls, streamVars, handlerVars, startVars, errVars, multiVars>>

\* variant: RLock does not look for a writer
CanRLock_IgnoresWriter == TRUE

\* sync.RWMutex: RLock returns when no goroutine has called Lock and not yet
\* Unlock (a writer that waits for the readers to leave already keeps new
\* readers out)
CanRLock == mu.w = 0

\* HealthCheck's loop state: the entries still to visit and the error the
\* call is about to return
LoopState(left, err) == [left |-> left, err |-> err]
NoLoop == LoopState(0, NoErr)

\* goroutine p calls Register with a name and an adapter that pass the two
\* argument checks, and reaches m.mu.Lock()
RegisterBegin(p) ==
    /\ gpc[p] = "idle"
    /\ gpc' = [gpc EXCEPT ![p] = "regLock"]
    /\ UNCHANGED <<mu, gn, adapters, registered>>
    /\ UNCHANGED lockFrame

\* m.mu.Lock(), first half: p is the one writer, new readers are kept out
RegisterLock(p) ==
    /\ gpc[p] = "regLock"
    /\ mu.w = 0
    /\ mu' = [mu EXCEPT !.w = p]
    /\ gpc' = [gpc EXCEPT ![p] = "regWait"]
    /\ UNCHANGED <<gn, adapters, registered>>
    /\ UNCHANGED lockFrame

\* m.mu.Lock(), second half: it returns once the readers have left
RegisterAcquire(p) ==
    /\ gpc[p] = "regWait"
    /\ mu.w = p
    /\ mu.r = {}
    /\ gpc' = [gpc EXCEPT ![p] = "regCS"]
    /\ UNCHANGED <<mu, gn, adapters, registered>>
    /\ UNCHANGED lockFrame

\* the body of Register(modelName, adapter) under the lock and the deferred
\* m.mu.Unlock(). The call's arguments play no part before this step, so
\* they are drawn here.
RegisterLocked(p, modelName, adapter) ==
    /\ gpc[p] = "regCS"
    /\ adapters' = RegisterMap(adapters, modelName, adapter)
    /\ registered' = IF RegisterErr(adapters, modelName, adapter) = NoErr
                     THEN registered \cup {modelName} ELSE registered
    /\ mu' = [mu EXCEPT !.w = 0]
    /\ gpc' = [gpc EXCEPT ![p] = "idle"]
    /\ UNCHANGED gn
    /\ UNCHANGED lockFrame

\* the calls that read the map once under RLock: GetAdapter ("get"), Chat and
\* ChatStream through GetAdapter ("call"), ListModels ("list")
LookupKinds == {"get", "call", "list"}

\* the position at m.mu.RLock() and the position inside the read section
RLockPc(kind) ==
    IF kind = "get" THEN "getRLock" ELSE IF kind = "call" THEN "callRLock" ELSE "listRLock"
ReadPc(kind) ==
    IF kind = "get" THEN "getRead" ELSE IF kind = "call" THEN "callRead" ELSE "listRead"

\* goroutine p calls GetAdapter, Chat / ChatStream or ListModels and reaches
\* m.mu.RLock()
LookupBegin(p, kind) ==
    /\ gpc[p] = "idle"
    /\ gpc' = [gpc EXCEPT ![p] = RLockPc(kind)]
    /\ UNCHANGED <<mu, gn, adapters, registered>>
    /\ UNCHANGED lockFrame

\* GetAdapter, ListModels: m.mu.RLock() returns
LookupRLock(p) ==
    /\ \E kind \in LookupKinds :
          /\ gpc[p] = RLockPc(kind)
          /\ gpc' = [gpc EXCEPT ![p] = ReadPc(kind)]
    /\ CanRLock
    /\ mu' = [mu EXCEPT !.r = @ \cup {p}]
    /\ UNCHANGED <<gn, adapters, registered>>
    /\ UNCHANGED lockFrame

\* GetAdapter, ListModels: the map read and the deferred m.mu.RUnlock(); Chat
\* and ChatStream then return the error or call the adapter, with no lock held
LookupRead(p, modelName) ==
    /\ gpc[p] \in {"getRead", "callRead", "listRead"}
    /\ mu' = [mu EXCEPT !.r = @ \ {p}]
    /\ gpc' = [gpc EXCEPT ![p] =
                  IF @ = "callRead" /\ GetAdapterResult(adapters, modelName).err = NoErr
                  THEN "backend" ELSE "idle"]
    /\ UNCHANGED <<gn, adapters, registered>>
    /\ UNCHANGED lockFrame

\* adapter.Chat / adapter.ChatStream returns to Chat / ChatStream, which returns
BackendReturn(p) ==
    /\ gpc[p] = "backend"
    /\ gpc' = [gpc EXCEPT ![p] = "idle"]
    /\ UNCHANGED <<mu, gn, adapters, registered>>
    /\ UNCHANGED lockFrame

\* goroutine p calls HealthCheck and reaches m.mu.RLock()
HealthBegin(p) ==
    /\ gpc[p] = "idle"
    /\ gpc' = [gpc EXCEPT ![p] = "hcRLock"]
    /\ UNCHANGED <<mu, gn, adapters, registered>>
    /\ UNCHANGED lockFrame

\* HealthCheck: m.mu.RLock() returns; the error when len(m.adapters) == 0,
\* otherwise the loop is to visit every entry of the map
HealthRLock(p) ==
    /\ gpc[p] = "hcRLock"
    /\ CanRLock
    /\ mu' = [mu EXCEPT !.r = @ \cup {p}]
    /\ gn' = [gn EXCEPT ![p] =
                 LoopState(Cardinality(DOMAIN adapters),
                           IF DOMAIN adapters = {} THEN ErrNoAdapters ELSE NoErr)]
    /\ gpc' = [gpc EXCEPT ![p] = "hcLoop"]
    /\ UNCHANGED <<adapters, registered>>
    /\ UNCHANGED lockFrame

\* variant: the loop goes on to the next entry after a failed probe
HealthProbeStart_AfterFailure(p) ==
    /\ gpc[p] = "hcLoop"
    /\ gn[p].left > 0
    /\ gpc' = [gpc EXCEPT ![p] = "hcProbe"]
    /\ UNCHANGED <<mu, gn, adapters, registered>>
    /\ UNCHANGED lockFrame

\* HealthCheck: the loop calls adapter.HealthCheck(ctx) of the next entry
HealthProbeStart(p) ==
    /\ gpc[p] = "hcLoop"
    /\ gn[p].left > 0
    /\ gn[p].err = NoErr
    /\ gpc' = [gpc EXCEPT ![p] = "hcProbe"]
    /\ UNCHANGED <<mu, gn, adapters, registered>>
    /\ UNCHANGED lockFrame

\* HealthCheck: adapter.HealthCheck(ctx) returns; an error is what the call
\* returns
HealthProbeEnd(p, probeOk) ==
    /\ gpc[p] = "hcProbe"
    /\ gn' = [gn EXCEPT ![p] =
                 LoopState(@.left - 1, IF probeOk THEN NoErr ELSE ErrUnhealthy)]
    /\ gpc' = [gpc EXCEPT ![p] = "hcLoop"]
    /\ UNCHANGED <<mu, adapters, registered>>
    /\ UNCHANGED lockFrame

\* HealthCheck returns, with an error or after the last entry: the deferred
\* m.mu.RUnlock()
HealthReturn(p) ==
    /\ gpc[p] = "hcLoop"
    /\ gn[p].left = 0 \/ gn[p].err # NoErr
    /\ mu' = [mu EXCEPT !.r = @ \ {p}]
    /\ gn' = [gn EXCEPT ![p] = NoLoop]
    /\ gpc' = [gpc EXCEPT ![p] = "idle"]
    /\ UNCHANGED <<adapters, registered>>
    /\ UNCHANGED lockFrame

(* ============================ process start =========================== *)

\* the Models lists a configuration may give an adapter
ModelLists == UNION {[1..k -> ModelNames] : k \in 0..MaxModels}

\* cfg.Adapters as config.Load may read it from the file
FileConfigs ==
    {[source |-> "file", adapters |-> f] :
        f \in UNION {[S -> ModelLists] : S \in SUBSET AdapterNames}}

\* the wiring written into initHandlers(apiKey): three names, one GLM adapter
FixedConfig ==
    [source |-> "fixed",
     adapters |-> [a \in {"glm"} |-> <<"glm-4", "glm-4-flash", "glm-4-air">>]]

\* the instance glm.NewGLMAdapter returns
GLMInstance == AdapterPool[1]

\* the model names a configuration lists, under any adapter
ConfiguredModels(c) ==
    UNION {{c.adapters[a][i] : i \in 1..Len(c.adapters[a])} : a \in DOMAIN c.adapters}

\* the model names a configuration lists under the adapter initHandlers implements
GLMModels(c) ==
    IF "glm" \in DOMAIN c.adapters
    THEN {c.adapters["glm"][i] : i \in 1..Len(c.adapters["glm"])}
    ELSE {}

\* config.validate, the adapter part: at least one adapter, and every adapter
\* with at least one model (API key and base URL are taken as present)
Validate(c) ==
    /\ DOMAIN c.adapters # {}
    /\ \A a \in DOMAIN c.adapters : Len(c.adapters[a]) > 0

startFrame == <<listed, streamVars, handlerVars, lockVars, errVars, multiVars>>

\* loadConfig: config.Load and validate; log.Fatalf when it fails. The fixed
\* wiring has no file to load.
LoadConfig ==
    /\ spc = "load"
    /\ spc' = IF cfg.source = "fixed" \/ Validate(cfg) THEN "init" ELSE "fatal"
    /\ todo' = IF cfg.source = "fixed" \/ Validate(cfg) THEN DOMAIN cfg.adapters ELSE {}
    /\ UNCHANGED <<cfg, pending, warned, adapters, ret, registered, calls>>
    /\ UNCHANGED startFrame

\* initHandlers, one turn of `for adapterName, adapterCfg := range
\* cfg.Adapters`: case "glm" creates the adapter and goes on to register its
\* models; default logs the warning and skips the entry
VisitAdapter(adapterName) ==
    /\ spc = "init"
    /\ pending = <<>>
    /\ adapterName \in todo
    /\ todo' = todo \ {adapterName}
    /\ pending' = IF adapterName = "glm" THEN cfg.adapters[adapterName] ELSE <<>>
    /\ warned' = IF adapterName = "glm" THEN warned ELSE warned \cup {adapterName}
    /\ UNCHANGED <<cfg, spc, adapters, ret, registered, calls>>
    /\ UNCHANGED startFrame

\* variant: a failed Register is logged and the loop goes on
AfterRegister_GoesOn(err) == "init"

\* initHandlers: log.Fatalf / log.Fatal when manager.Register returns an error
AfterRegister(err) == IF err = NoErr THEN "init" ELSE "fatal"

\* initHandlers: manager.Register(modelName, adp) for the next model name
RegisterModel ==
    /\ spc = "init"
    /\ pending # <<>>
    /\ LET modelName == Head(pending)
           err == RegisterErr(adapters, modelName, GLMInstance) IN
        /\ adapters' = RegisterMap(adapters, modelName, GLMInstance)
        /\ ret' = Ret("Register", modelName, GLMInstance, NilAdapter, err, {})
        /\ registered' = IF err = NoErr THEN registered \cup {modelName} ELSE registered
        /\ spc' = AfterRegister(err)
    /\ pending' = Tail(pending)
    /\ calls' = <<>>
    /\ UNCHANGED <<cfg, todo, warned>>
    /\ UNCHANGED startFrame

\* main: initHandlers has returned; router.SetupRouter and startServer (r.Run)
StartServer ==
    /\ spc = "init"
    /\ todo = {}
    /\ pending = <<>>
    /\ spc' = "serving"
    /\ UNCHANGED <<cfg, todo, pending, warned, adapters, ret, registered, calls>>
    /\ UNCHANGED startFrame

\* a non-stream request arrives at the running server
ServeRequest(modelName, outcome) ==
    /\ spc = "serving"
    /\ HandleChatCompletion(TRUE, FALSE, modelName, outcome)

(* ========================== error responses =========================== *)

\* the type strings of the taxonomy
ErrorTypes ==
    {ErrorTypeInvalidRequest, ErrorTypeAuthentication, ErrorTypePermission,
     ErrorTypeNotFound, ErrorTypeRateLimit, ErrorTypeAPIError, ErrorTypeTimeout,
     ErrorTypeServerError}

\* the type strings a caller of NewErrorResponse may pass: the taxonomy, the
\* empty string and a string outside the taxonomy
TypeStrings == ErrorTypes \cup {"", "teapot_error"}

\* values for Error.Param and Error.Code
ParamStrings == {"", "body", "model"}
CodeStrings == {"", "model_not_found", "rate_limited"}

\* no ErrorResponse built yet
NoErrorResponse == [type |-> "none", param |-> "", code |-> ""]

ErrorIdle ==
    /\ er = NoErrorResponse
    /\ httpStatus = 0

errFrame == <<regVars, calls, streamVars, handlerVars, lockVars, startVars, multiVars>>

\* NewErrorResponse(errType, message), and the constructors that fix the type
NewErrorResponse(errType) ==
    /\ er' = [type |-> errType, param |-> "", code |-> ""]
    /\ httpStatus' = 0
    /\ UNCHANGED errFrame

\* NewInvalidRequestError(message, param)
NewInvalidRequestError(param) ==
    /\ er' = [type |-> ErrorTypeInvalidRequest, param |-> param, code |-> ""]
    /\ httpStatus' = 0
    /\ UNCHANGED errFrame

\* ErrorResponse.WithParam: e.Error.Param = param
WithParam(param) ==
    /\ er # NoErrorResponse
    /\ er' = [er EXCEPT !.param = param]
    /\ UNCHANGED httpStatus
    /\ UNCHANGED errFrame

\* ErrorResponse.WithCode: e.Error.Code = code
WithCode(code) ==
    /\ er # NoErrorResponse
    /\ er' = [er EXCEPT !.code = code]
    /\ UNCHANGED httpStatus
    /\ UNCHANGED errFrame

\* a call of e.GetHTTPStatus()
CallGetHTTPStatus ==
    /\ er # NoErrorResponse
    /\ httpStatus' = GetHTTPStatus(er.type)
    /\ UNCHANGED er
    /\ UNCHANGED errFrame

(* ========================= concurrent streams ========================= *)

\* the requests that stream at the same time
Requests == 1..NumReqs

\* make(chan *model.StreamResponse, 10)
EmptyChan == [buf |-> <<>>, closed |-> FALSE]

\* a handler that has not called ChatStream yet
NoHandler == [pc |-> "start", estab |-> "none", chan |-> 0, got |-> <<>>]

MultiIdle ==
    /\ chans = <<>>
    /\ prods = <<>>
    /\ hs = [r \in Requests |-> NoHandler]

multiFrame == <<regVars, calls, streamVars, handlerVars, lockVars, startVars, errVars>>

\* variant: the adapter keeps one channel and every call returns it
MakeChan_Shared(chs) ==
    IF chs = <<>>
    THEN [chans |-> <<EmptyChan>>, id |-> 1]
    ELSE [chans |-> chs, id |-> 1]

\* streamChan := make(...) in ChatStream: a new channel on every call
MakeChan(chs) == [chans |-> Append(chs, EmptyChan), id |-> Len(chs) + 1]

\* handleStreamResponse of request r calls ChatStream: on an error it writes
\* the error frame and returns; otherwise ChatStream makes the channel, starts
\* the goroutine whose closure holds it, and returns it to this handler
MultiChatStream(r, outcome) ==
    /\ hs[r].pc = "start"
    /\ IF outcome # "ok"
       THEN /\ hs' = [hs EXCEPT ![r] = [@ EXCEPT !.pc = "done", !.estab = outcome]]
            /\ UNCHANGED <<chans, prods>>
       ELSE LET mk == MakeChan(chans) IN
            /\ chans' = mk.chans
            /\ prods' = Append(prods, [chan |-> mk.id, pc |-> "run", sent |-> 0])
            /\ hs' = [hs EXCEPT ![r] = [@ EXCEPT !.pc = "recv", !.estab = "ok",
                                                 !.chan = mk.id]]
    /\ UNCHANGED multiFrame

\* producer j: streamChan <- &streamResp on the channel of its closure
MultiProducerSend(j) ==
    /\ j \in 1..Len(prods)
    /\ prods[j].pc = "run"
    /\ prods[j].sent < MaxFrames
    /\ Len(chans[prods[j].chan].buf) < ChanCap
    /\ ~chans[prods[j].chan].closed
    /\ chans' = [chans EXCEPT ![prods[j].chan].buf =
                    Append(@, [from |-> j, n |-> prods[j].sent + 1])]
    /\ prods' = [prods EXCEPT ![j].sent = @ + 1]
    /\ UNCHANGED hs
    /\ UNCHANGED multiFrame

\* producer j leaves its loop: the deferred close(streamChan), and it exits.
\* Closing a closed channel panics.
MultiProducerExit(j) ==
    /\ j \in 1..Len(prods)
    /\ prods[j].pc = "run"
    /\ chans' = [chans EXCEPT ![prods[j].chan].closed = TRUE]
    /\ prods' = [prods EXCEPT ![j].pc =
                    IF chans[prods[j].chan].closed THEN "panic" ELSE "exited"]
    /\ UNCHANGED hs
    /\ UNCHANGED multiFrame

\* handler r: one iteration of `for streamResp := range streamChan`
MultiHandlerRecv(r) ==
    /\ hs[r].pc = "recv"
    /\ Len(chans[hs[r].chan].buf) > 0
    /\ hs' = [hs EXCEPT ![r].got = Append(@, Head(chans[hs[r].chan].buf))]
    /\ chans' = [chans EXCEPT ![hs[r].chan].buf = Tail(@)]
    /\ UNCHANGED prods
    /\ UNCHANGED multiFrame

\* handler r: the range loop ends on the closed, drained channel
MultiHandlerEnd(r) ==
    /\ hs[r].pc = "recv"
    /\ chans[hs[r].chan].buf = <<>>
    /\ chans[hs[r].chan].closed
    /\ hs' = [hs EXCEPT ![r].pc = "done"]
    /\ UNCHANGED <<chans, prods>>
    /\ UNCHANGED multiFrame

(* ========================== the specifications ======================== *)

StreamIdle ==
    /\ hpc = "start"
    /\ estab = "none"
    /\ ppc = "none"
    /\ lines = <<>>
    /\ cur = 0
    /\ streamChan = <<>>
    /\ chanClosed = 0
    /\ bodyClosed = 0
    /\ canceled = FALSE
    /\ out = <<>>
    /\ attempts = 0
    /\ exitPath = "none"
    /\ req = NoReq
    /\ resp = NoResp

\* no goroutine is in the registry, nobody holds the lock
LockIdle ==
    /\ mu = [w |-> 0, r |-> {}]
    /\ gpc = [p \in Goroutines |-> "idle"]
    /\ gn = [p \in Goroutines |-> NoLoop]

\* the process is past its startup
StartupIdle ==
    /\ cfg = NoConfig
    /\ spc = "none"
    /\ todo = {}
    /\ pending = <<>>
    /\ warned = {}

\* the registry API, called in any order on a fresh manager
Init ==
    /\ adapters = NewAdapterManager
    /\ ret = NoRet
    /\ listed = <<>>
    /\ registered = {}
    /\ calls = <<>>
    /\ StreamIdle
    /\ LockIdle
    /\ ErrorIdle
    /\ MultiIdle
    /\ StartupIdle

Next ==
    \/ \E m \in ModelNames, a \in AdapterArgs : Register(m, a)
    \/ \E m \in ModelNames : GetAdapter(m)
    \/ \E m \in ModelNames, ok \in BOOLEAN : Chat(m, ok)
    \/ \E m \in ModelNames, ok \in BOOLEAN : ChatStream(m, ok)
    \/ \E u \in SUBSET Adapters : HealthCheck(u)

Spec == Init /\ [][Next]_vars

\* a caller that lists the models between registrations and keeps the slice
NextList ==
    \/ \E m \in ModelNames, a \in AdapterArgs : Register(m, a)
    \/ ListModels

SpecList == Init /\ [][NextList]_vars

\* one streaming request; the registry is as initHandlers leaves it with one
\* model name configured
InitStream ==
    /\ adapters = MapSet(NewAdapterManager, NamePool[1], AdapterPool[1])
    /\ ret = NoRet
    /\ listed = <<>>
    /\ registered = {NamePool[1]}
    /\ calls = <<>>
    /\ StreamIdle
    /\ LockIdle
    /\ ErrorIdle
    /\ MultiIdle
    /\ StartupIdle

NextStream ==
    \/ \E b \in BOOLEAN, st \in BOOLEAN, m \in ModelNames, o \in Outcomes :
          /\ (b => m # EmptyName)
          /\ HandleChatCompletion(b, st, m, o)
    \/ HandleStreamRecv
    \/ HandleStreamEnd
    \/ \E l \in NextLines : ProducerScan(l)
    \/ \E e \in BOOLEAN : ProducerScanEnd(e)
    \/ ProducerSend
    \/ ProducerCtxDone
    \/ ProducerCloseChan
    \/ ProducerCloseBody
    \/ Cancel

SpecStream == InitStream /\ [][NextStream]_vars

\* the lines the upstream may deliver next under the fair specification: the
\* lines the loop skips come before the first frame only (a skipped line
\* changes nothing but the line count, wherever it comes)
LiveLines ==
    LET id == Len(lines) + 1 IN
    {Line("data: ", "{json}", id), Line("data: ", "[DONE]", id)}
    \cup (IF Len(lines) < MaxSkipped
          THEN {Line("data: ", "{bad", id), Line("", "", id)} ELSE {})

\* a step of the producer goroutine
ProducerStep ==
    \/ \E l \in LiveLines : ProducerScan(l)
    \/ \E e \in BOOLEAN : ProducerScanEnd(e)
    \/ ProducerSend
    \/ ProducerCtxDone
    \/ ProducerCloseChan
    \/ ProducerCloseBody

\* a step of the handler goroutine in its receive loop
HandlerStep ==
    \/ HandleStreamRecv
    \/ HandleStreamEnd

NextStreamLive ==
    \/ \E b \in BOOLEAN, st \in BOOLEAN, m \in ModelNames, o \in Outcomes :
          /\ (b => m # EmptyName)
          /\ HandleChatCompletion(b, st, m, o)
    \/ ProducerStep
    \/ HandlerStep
    \/ Cancel

\* the streaming request with the scheduler running every goroutine that can
\* take a step; the upstream ends within MaxLines lines (the request carries
\* the context and the client a timeout, so the body read always ends)
SpecStreamLive ==
    /\ InitStream
    /\ [][NextStreamLive]_vars
    /\ WF_vars(ProducerStep)
    /\ WF_vars(HandlerStep)

\* goroutines calling the registry concurrently, the lock taken and released
\* step by step
InitLock == Init

NextLock ==
    \E p \in Goroutines :
        \/ RegisterBegin(p)
        \/ RegisterLock(p)
        \/ RegisterAcquire(p)
        \/ \E m \in ModelNames \ {EmptyName}, a \in Adapters : RegisterLocked(p, m, a)
        \/ \E k \in LookupKinds : LookupBegin(p, k)
        \/ LookupRLock(p)
        \/ \E m \in ModelNames : LookupRead(p, m)
        \/ BackendReturn(p)
        \/ HealthBegin(p)
        \/ HealthRLock(p)
        \/ HealthProbeStart(p)
        \/ \E ok \in BOOLEAN : HealthProbeEnd(p, ok)
        \/ HealthReturn(p)

SpecLock == InitLock /\ [][NextLock]_vars

\* the process from its start: either main, on any configuration
InitStartup ==
    /\ adapters = NewAdapterManager
    /\ ret = NoRet
    /\ listed = <<>>
    /\ registered = {}
    /\ calls = <<>>
    /\ StreamIdle
    /\ LockIdle
    /\ ErrorIdle
    /\ MultiIdle
    /\ cfg \in FileConfigs \cup {FixedConfig}
    /\ spc = "load"
    /\ todo = {}
    /\ pending = <<>>
    /\ warned = {}

NextStartup ==
    \/ LoadConfig
    \/ \E a \in AdapterNames : VisitAdapter(a)
    \/ RegisterModel
    \/ StartServer
    \/ \E m \in ModelNames \ {EmptyName}, o \in Outcomes : ServeRequest(m, o)

SpecStartup == InitStartup /\ [][NextStartup]_vars

\* error responses built, modified and asked for their status in any order
NextStatus ==
    \/ \E t \in TypeStrings : NewErrorResponse(t)
    \/ \E p \in ParamStrings : NewInvalidRequestError(p)
    \/ \E p \in ParamStrings : WithParam(p)
    \/ \E c \in CodeStrings : WithCode(c)
    \/ CallGetHTTPStatus

SpecStatus == Init /\ [][NextStatus]_vars

\* several streaming requests at the same time
NextMulti ==
    \/ \E r \in Requests, o \in Outcomes : MultiChatStream(r, o)
    \/ \E j \in 1..NumReqs : MultiProducerSend(j)
    \/ \E j \in 1..NumReqs : MultiProducerExit(j)
    \/ \E r \in Requests : MultiHandlerRecv(r)
    \/ \E r \in Requests : MultiHandlerEnd(r)

SpecMulti == Init /\ [][NextMulti]_vars

(* ============================== the claims ============================ *)

\* s is a prefix of t
IsPrefix(s, t) == Len(s) <= Len(t) /\ SubSeq(t, 1, Len(s)) = s

\* a well-formed `data: ` frame line
IsWellFormed(l) == HasDataPrefix(l) /\ ~IsDoneMarker(l) /\ UnmarshalOk(l)

\* the upstream read so far is N well-formed frames followed by the [DONE] marker
FramesThenDone(ls) ==
    /\ Len(ls) >= 1
    /\ HasDataPrefix(ls[Len(ls)]) /\ IsDoneMarker(ls[Len(ls)])
    /\ \A i \in 1..(Len(ls) - 1) : IsWellFormed(ls[i])

\* the request is over: the handler returned and the producer goroutine ended
RelayFinished == hpc = "done" /\ ppc = "exited"

\* C1: when the upstream is N well-formed frames and then [DONE] and the
\* context is never canceled, the finished relay has written exactly the N
\* frames in upstream order and then one [DONE] marker, and the upstream body
\* was closed exactly once.
C1_RelayExact ==
    (RelayFinished /\ ~canceled /\ FramesThenDone(lines))
        => /\ out = [i \in 1..Len(lines) |->
                        IF i < Len(lines) THEN DataFrame(lines[i].id) ELSE DoneFrame]
           /\ bodyClosed = 1

C1_Witness ==
    /\ RelayFinished /\ ~canceled /\ FramesThenDone(lines)
    /\ Len(lines) = ChanCap + 2

\* C2: after the context is canceled the producer is at its select statement
\* at most once (one send attempt), and then stops.
C2_StopsWithinOneSend == canceled => attempts <= 1

\* C3: the upstream body is closed at most once and exactly once when the
\* producer has exited or the upstream answered with a non-200 status; the
\* channel is closed at most once, exactly once when the producer has exited,
\* and only by the producer.
C3_ClosedExactlyOnce ==
    /\ bodyClosed <= 1
    /\ chanClosed <= 1
    /\ (ppc = "exited" => (bodyClosed = 1 /\ chanClosed = 1 /\ exitPath # "none"))
    /\ (estab = "non200" => (bodyClosed = 1 /\ chanClosed = 0 /\ ppc = "none"))
    /\ (estab \in {"notFound", "transportErr"} => (bodyClosed = 0 /\ chanClosed = 0))

C3_Witness == ppc = "exited" /\ exitPath = "cancel" /\ Len(streamChan) > 0

\* C4: the channel never holds more than 10 frames, and while the context is
\* not canceled the frames written, the frames buffered and the frame the
\* producer holds at its select are together exactly the frames parsed, in
\* order: nothing is dropped, duplicated or reordered.
C4_BoundedNoLoss ==
    /\ Len(streamChan) <= ChanCap
    /\ (~canceled /\ estab = "ok")
          => WrittenData(out) \o streamChan \o (IF ppc = "select" THEN <<cur>> ELSE <<>>)
                = ParsedFrames(lines)

\* the producer is blocked on the full channel
C4_Witness ==
    /\ ~canceled
    /\ Len(streamChan) = ChanCap
    /\ ppc = "select"

\* C5: a step that reads a malformed data line leaves the producer in its
\* loop and puts nothing on the channel or on the wire; the data frames
\* written are always a prefix of the well-formed frames read, no error frame
\* is written on an established stream, and a finished, uncanceled relay has
\* written all of the well-formed frames.
C5_MalformedSkipped ==
    [][ /\ (ppc = "scan" /\ Len(lines') = Len(lines) + 1 /\ IsMalformed(lines'[Len(lines')]))
            => (ppc' = "scan" /\ UNCHANGED <<streamChan, cur, out, chanClosed, exitPath>>)
        /\ IsPrefix(WrittenData(out'), ParsedFrames(lines'))
        /\ (estab' = "ok" => CountType(out', "error") = 0)
        /\ (hpc' = "done" /\ ppc' = "exited" /\ ~canceled')
            => WrittenData(out') = ParsedFrames(lines')
      ]_vars

\* a malformed line between two well-formed ones, both of which were written,
\* one right after the other
C5_Witness ==
    \E j \in 2..(Len(lines) - 1) :
        /\ IsMalformed(lines[j])
        /\ IsWellFormed(lines[j - 1]) /\ IsWellFormed(lines[j + 1])
        /\ \E p \in 1..(Len(out) - 1) :
              /\ out[p] = DataFrame(j - 1)
              /\ out[p + 1] = DataFrame(j + 1)

\* C6: Register on a bound name fails (with the already-registered error when
\* the adapter argument is an adapter) and the map is unchanged, so GetAdapter
\* on that name still returns the first adapter.
C6_NoRebind ==
    [][ \A m \in ModelNames, b \in AdapterArgs :
          (Register(m, b) /\ m \in DOMAIN adapters)
             => /\ ret'.err # NoErr
                /\ (b # NilAdapter => ret'.err = ErrAlreadyRegistered)
                /\ adapters' = adapters
                /\ GetAdapterResult(adapters', m) = [adapter |-> adapters[m], err |-> NoErr]
      ]_vars

C6_Witness ==
    /\ ret.op = "Register"
    /\ ret.err = ErrAlreadyRegistered
    /\ ret.name \in DOMAIN adapters
    /\ adapters[ret.name] # ret.arg

\* C7: GetAdapter on an unbound name returns the not-found error and no
\* adapter, and the map is unchanged.
C7_LookupMiss ==
    [][ \A m \in ModelNames :
          (GetAdapter(m) /\ m \notin DOMAIN adapters)
             => /\ ret'.err = ErrNotFound
                /\ ret'.val = NilAdapter
                /\ adapters' = adapters
      ]_vars

C7_Witness ==
    /\ ret.op = "GetAdapter"
    /\ ret.err = ErrNotFound
    /\ ret.name # EmptyName
    /\ DOMAIN adapters # {}

\* C8: Register of an unbound name with an adapter instance that is already
\* bound under another name succeeds, and afterwards both names resolve to
\* that instance.
C8_SharedAdapter ==
    [][ \A m2 \in ModelNames \ {EmptyName}, a \in Adapters :
          (Register(m2, a) /\ m2 \notin DOMAIN adapters)
             => /\ ret'.err = NoErr
                /\ GetAdapterResult(adapters', m2) = [adapter |-> a, err |-> NoErr]
                /\ \A m1 \in DOMAIN adapters :
                      adapters[m1] = a
                         => GetAdapterResult(adapters', m1) = [adapter |-> a, err |-> NoErr]
      ]_vars

C8_Witness ==
    /\ ret.op = "Register"
    /\ ret.err = NoErr
    /\ \E m1 \in DOMAIN adapters :
          /\ m1 # ret.name
          /\ ret.name \in DOMAIN adapters
          /\ adapters[m1] = adapters[ret.name]

\* C9: Register with an empty model name or a nil adapter returns an
\* invalid-argument error and leaves the map unchanged; the map never has an
\* entry under the empty name nor a nil adapter.
C9_InvalidArgument ==
    [][ /\ \A m \in ModelNames, a \in AdapterArgs :
              (Register(m, a) /\ (m = EmptyName \/ a = NilAdapter))
                 => /\ ret'.err \in {ErrEmptyName, ErrNilAdapter}
                    /\ adapters' = adapters
        /\ EmptyName \notin DOMAIN adapters'
        /\ \A n \in DOMAIN adapters' : adapters'[n] # NilAdapter
      ]_vars

C9_Witness ==
    /\ ret.op = "Register"
    /\ ret.err = ErrEmptyName
    /\ ret.arg # NilAdapter
    /\ DOMAIN adapters # {}

AdapterCalls(cs) == SelectSeq(cs, LAMBDA c : c.target \notin {"registry", "manager"})

\* the handler's calls of the manager in a call log
ManagerCalls(cs) == SelectSeq(cs, LAMBDA c : c.target = "manager")

\* C11: Chat and ChatStream on a bound name invoke exactly the adapter bound
\* to req.Model, once, with the same method, and return its result; on an
\* unbound name they invoke no adapter and return the not-found error, which
\* no adapter call returns.
C11_Dispatch ==
    [][ \A m \in ModelNames, ok \in BOOLEAN :
          (Chat(m, ok) \/ ChatStream(m, ok))
             => LET inv == AdapterCalls(calls') IN
                IF m \in DOMAIN adapters
                THEN /\ Len(inv) = 1
                     /\ inv[1].target = adapters[m]
                     /\ inv[1].method = ret'.op
                     /\ inv[1].name = m
                     /\ ret'.err = inv[1].result
                     /\ ret'.err # ErrNotFound
                ELSE /\ inv = <<>>
                     /\ ret'.err = ErrNotFound
      ]_vars

\* a call forwarded to one adapter while another name is bound to another one
C11_Witness ==
    /\ ret.op = "ChatStream"
    /\ ret.err = ErrUpstream
    /\ Len(AdapterCalls(calls)) = 1
    /\ \E n \in DOMAIN adapters : adapters[n] # ret.val

\* C12: a non-stream request naming an unregistered model is answered with
\* type not_found_error and status 404.
C12_NotFoundIs404 ==
    (hpc = "done" /\ req.bindOk /\ ~req.stream /\ req.model \notin DOMAIN adapters)
        => (resp.type = ErrorTypeNotFound /\ resp.status = 404)

\* C13: on the non-stream path the handler calls Chat once, at most one
\* adapter call follows, nothing is written as a stream; a success is answered
\* with 200 and the adapter's response, a failure with api_error, 500 and no
\* response body.
C13_NormalOnce ==
    (hpc = "done" /\ req.bindOk /\ ~req.stream)
        => /\ Len(ManagerCalls(calls)) = 1
           /\ ManagerCalls(calls)[1].method = "Chat"
           /\ Len(AdapterCalls(calls)) <= 1
           /\ \A i \in 1..Len(AdapterCalls(calls)) : AdapterCalls(calls)[i].method = "Chat"
           /\ out = <<>>
           /\ estab = "none"
           /\ IF ManagerCalls(calls)[1].result = NoErr
              THEN resp = JSONResponse(200, "none", UpstreamResponse(req.model))
              ELSE resp = JSONResponse(500, ErrorTypeAPIError, NoBody)

\* the adapter's call failed and was not repeated
C13_Witness ==
    /\ hpc = "done" /\ req.bindOk /\ ~req.stream
    /\ resp.status = 500
    /\ Len(AdapterCalls(calls)) = 1

\* C14: when ChatStream returns an error the handler has written one error
\* frame and nothing else, it has returned, and there is no producer and no
\* channel.
C14_StreamEstablishFailure ==
    (estab \in {"notFound", "transportErr", "non200"})
        => /\ hpc = "done"
           /\ out = <<ErrorFrame>>
           /\ ppc = "none"
           /\ streamChan = <<>>
           /\ chanClosed = 0
           /\ resp = NoResp

C14_Witness ==
    /\ req.stream
    /\ estab = "notFound"
    /\ out = <<ErrorFrame>>

\* C15: when the body does not bind, the handler answers
\* invalid_request_error with status 400 and makes no call at all: no lookup,
\* no Chat, no ChatStream, no stream output, whatever the stream flag.
C15_BindFailure ==
    (hpc = "done" /\ ~req.bindOk)
        => /\ resp = JSONResponse(400, ErrorTypeInvalidRequest, NoBody)
           /\ calls = <<>>
           /\ estab = "none"
           /\ ppc = "none"
           /\ out = <<>>

C15_Witness == hpc = "done" /\ ~req.bindOk /\ req.stream /\ resp.status = 400

\* C16 as stated: HealthCheck succeeds when no registered adapter fails its
\* probe, and fails naming a model with a failing adapter otherwise.
C16_HealthAggregate_Original ==
    [][ ret'.op = "HealthCheck"
          => IF ret'.list = {}
             THEN ret'.err = NoErr
             ELSE ret'.err = ErrUnhealthy /\ ret'.name \in ret'.list
      ]_vars

\* C16 amended: on a registry with at least one binding HealthCheck succeeds
\* when no registered adapter fails its probe, and fails naming a model with a
\* failing adapter otherwise, whatever the iteration order; on an empty
\* registry it fails with the no-adapters error.
C16_HealthAggregate ==
    [][ ret'.op = "HealthCheck"
          => /\ ret'.list \subseteq DOMAIN adapters
             /\ IF DOMAIN adapters = {}
                THEN ret'.err = ErrNoAdapters
                ELSE IF ret'.list = {}
                THEN ret'.err = NoErr
                ELSE ret'.err = ErrUnhealthy /\ ret'.name \in ret'.list
      ]_vars

\* three bindings, one of them with a failing adapter, and it is the one named
C16_Witness ==
    /\ ret.op = "HealthCheck"
    /\ ret.err = ErrUnhealthy
    /\ Cardinality(DOMAIN adapters) = 3
    /\ ret.list = {ret.name}

\* C19: on an established stream no error frame is ever written and the data
\* frames written are a prefix of the well-formed frames read so far; after an
\* upstream read error the handler has written data frames and the end marker
\* only.
C19_SilentTruncation ==
    (estab = "ok")
        => /\ CountType(out, "error") = 0
           /\ IsPrefix(WrittenData(out), ParsedFrames(lines))
           /\ (exitPath = "error" /\ hpc = "done")
                 => /\ CountType(out, "done") = 1
                    /\ out[Len(out)] = DoneFrame
                    /\ Len(out) = Len(WrittenData(out)) + 1

C19_Witness ==
    /\ estab = "ok"
    /\ exitPath = "error"
    /\ hpc = "done"
    /\ ~canceled
    /\ Len(WrittenData(out)) >= 2

\* C20: the slice ListModels returns holds every bound name once and nothing
\* else, which are the names whose Register succeeded; a later Register
\* leaves the returned slice as it is.
C20_ListSnapshot ==
    [][ /\ ret'.op = "ListModels"
            => /\ Range(listed') = DOMAIN adapters
               /\ Len(listed') = Cardinality(DOMAIN adapters)
               /\ Range(listed') = registered
               /\ ret'.list = Range(listed')
        /\ ret'.op = "Register" => listed' = listed
      ]_vars

\* a Register succeeded after the slice was returned
C20_Witness ==
    /\ ret.op = "Register"
    /\ ret.err = NoErr
    /\ Len(listed) >= 2
    /\ Range(listed) # DOMAIN adapters
    /\ Range(listed) \cup {ret.name} = DOMAIN adapters

\* goroutine p is inside a call of an adapter's Chat, ChatStream or HealthCheck
InBackendCall(p) == gpc[p] \in {"backend", "hcProbe"}

\* goroutine p holds the registry lock, for reading or for writing
HoldsLock(p) == p \in mu.r \/ mu.w = p

\* C17: no goroutine holds the registry lock while its call of an adapter is
\* in progress, and so no Register that has called Lock waits for a goroutine
\* that is inside an adapter call.
C17_NoLockAcrossBackend ==
    \A p \in Goroutines :
        InBackendCall(p)
            => /\ ~HoldsLock(p)
               /\ \A q \in Goroutines : gpc[q] = "regWait" => p \notin mu.r

\* C18 as stated: the server accepts requests only with every configured
\* model name bound, and a failed Register never leaves the process running.
C18_AllBoundBeforeServing_Original ==
    /\ spc = "serving" => ConfiguredModels(cfg) \subseteq DOMAIN adapters
    /\ (ret.op = "Register" /\ ret.err # NoErr) => spc = "fatal"
    /\ hpc # "start" => ConfiguredModels(cfg) \subseteq DOMAIN adapters

\* C18 amended: the server accepts requests only with every model name
\* configured under the "glm" adapter bound to the one GLM adapter instance,
\* and nothing else bound; the names configured under any other adapter are
\* skipped with a warning and stay unbound; a failed Register never leaves
\* the process running; no request is served before that.
C18_GLMBoundBeforeServing ==
    /\ spc = "serving"
          => /\ todo = {} /\ pending = <<>>
             /\ DOMAIN adapters = GLMModels(cfg)
             /\ \A n \in GLMModels(cfg) : adapters[n] = GLMInstance
             /\ warned = DOMAIN cfg.adapters \ {"glm"}
    /\ (ret.op = "Register" /\ ret.err # NoErr) => spc = "fatal"
    /\ hpc # "start" => spc = "serving"

\* a request for a model configured under the skipped adapter is served (and
\* fails) while the models of the "glm" adapter are bound
C18_Witness ==
    /\ spc = "serving"
    /\ hpc = "done"
    /\ Cardinality(DOMAIN adapters) >= 2
    /\ "doubao" \in warned
    /\ req.model \in ConfiguredModels(cfg) \ DOMAIN adapters
    /\ resp.status = 500

\* C23: a successful Register(m, a) adds exactly one entry, m bound to a: m
\* was unbound, the bound names afterwards are the previous ones plus m, and
\* every previously bound name resolves to the same adapter as before.
C23_AddsOneEntry ==
    [][ (ret'.op = "Register" /\ ret'.err = NoErr)
          => /\ ret'.name \notin DOMAIN adapters
             /\ DOMAIN adapters' = DOMAIN adapters \cup {ret'.name}
             /\ Cardinality(DOMAIN adapters') = Cardinality(DOMAIN adapters) + 1
             /\ adapters'[ret'.name] = ret'.arg
             /\ \A n \in DOMAIN adapters : adapters'[n] = adapters[n]
      ]_vars

\* a Register that succeeded on a registry holding a binding to another adapter
C23_Witness ==
    /\ ret.op = "Register"
    /\ ret.err = NoErr
    /\ Cardinality(DOMAIN adapters) >= 2
    /\ adapters[ret.name] = ret.arg
    /\ \E n \in DOMAIN adapters : adapters[n] # ret.arg

\* the status the taxonomy gives a type string
TaxonomyStatus(t) ==
    CASE t = "invalid_request_error" -> 400
      [] t = "authentication_error" -> 401
      [] t = "permission_error" -> 403
      [] t = "not_found_error" -> 404
      [] t = "timeout_error" -> 408
      [] t = "rate_limit_error" -> 429
      [] t = "api_error" -> 500
      [] t = "server_error" -> 500
      [] OTHER -> 500

\* C24: GetHTTPStatus gives every type string the status of the taxonomy
\* (500 outside it), and the status of an ErrorResponse stays the one of its
\* type whatever WithParam and WithCode have set.
C24_StatusOfType ==
    /\ \A t \in TypeStrings : GetHTTPStatus(t) = TaxonomyStatus(t)
    /\ httpStatus # 0 => httpStatus = TaxonomyStatus(er.type)
    /\ er # NoErrorResponse => GetHTTPStatus(er.type) = TaxonomyStatus(er.type)

\* a timeout error that has a param and a code, asked for its status
C24_Witness ==
    /\ er.type = ErrorTypeTimeout
    /\ er.param # ""
    /\ er.code # ""
    /\ httpStatus = 408

\* C21: a call of HealthCheck has a probe in progress only with no failed
\* probe behind it and an entry left to visit; a probe starts from the loop,
\* where no probe of the call is in progress, and after a failed probe the
\* call only returns.
C21_SequentialFailFast ==
    [][ \A p \in Goroutines :
          /\ gpc'[p] = "hcProbe"
                => /\ gn'[p].err = NoErr
                   /\ gn'[p].left > 0
                   /\ gn'[p].left <= Cardinality(DOMAIN adapters')
                   /\ gpc[p] \in {"hcLoop", "hcProbe"}
          /\ (gpc[p] = "hcLoop" /\ gn[p].err = ErrUnhealthy)
                => gpc'[p] \in {"hcLoop", "idle"}
      ]_vars

\* the second probe of a call has failed with a third entry not visited
C21_Witness ==
    \E p \in Goroutines :
        /\ gpc[p] = "hcLoop"
        /\ gn[p].err = ErrUnhealthy
        /\ gn[p].left = 1
        /\ Cardinality(DOMAIN adapters) = 3

\* the goroutines inside Register's critical section
Writers == {p \in Goroutines : gpc[p] = "regCS"}

\* the goroutines inside a read section of GetAdapter, ListModels or HealthCheck
Readers ==
    {p \in Goroutines : gpc[p] \in {"getRead", "callRead", "listRead", "hcLoop", "hcProbe"}}

\* C22: at most one goroutine is inside Register's critical section, and
\* then none is inside a read section; the lock's state agrees with that.
C22_ReadersWriter ==
    /\ Cardinality(Writers) <= 1
    /\ Writers # {} => Readers = {}
    /\ Readers = mu.r
    /\ \A p \in Writers : mu.w = p

\* every goroutine is inside a read section at the same time
C22_Witness ==
    /\ Readers = Goroutines
    /\ \E p, q \in Readers : gpc[p] = "listRead" /\ gpc[q] = "hcProbe"

\* C26: on an established stream the handler writes no end marker while it
\* is in its receive loop; when it has returned, the marker is there once, as
\* the last write, the producer has exited its loop on one of its four ways
\* and closed the channel, and no frame is left in the channel.
C26_DoneOnceLast ==
    (estab = "ok")
        => /\ hpc = "recv" => CountType(out, "done") = 0
           /\ hpc = "done"
                 => /\ CountType(out, "done") = 1
                    /\ out[Len(out)] = DoneFrame
                    /\ \A i \in 1..(Len(out) - 1) : out[i].type = "data"
                    /\ exitPath \in {"done", "eof", "error", "cancel"}
                    /\ chanClosed = 1
                    /\ streamChan = <<>>

\* the producer left on cancellation and the handler still wrote the frames
\* sent before, then the marker
C26_Witness ==
    /\ estab = "ok"
    /\ hpc = "done"
    /\ exitPath = "cancel"
    /\ Len(out) >= 3
    /\ out[Len(out)] = DoneFrame

\* C27: every established stream ends with the channel closed, the producer
\* exited and the handler out of its receive loop, and a producer waiting at
\* its select always leaves it.
C27_StreamTerminates ==
    /\ (estab = "ok") ~> (hpc = "done" /\ ppc = "exited" /\ chanClosed = 1)
    /\ (ppc = "select") ~> (ppc # "select")

\* the producer waits at its select with the channel full and no cancellation
C27_Witness ==
    /\ ppc = "select"
    /\ Len(streamChan) = ChanCap
    /\ ~canceled
    /\ hpc = "recv"

\* the requests whose ChatStream call returned a channel
Established == {r \in Requests : hs[r].estab = "ok"}

\* the producers whose closure holds channel i
ProducersOf(i) == {j \in 1..Len(prods) : prods[j].chan = i}

\* C25: every established call has its own channel with exactly one producer;
\* every frame in a channel or received by a handler was sent by the producer
\* of that call, and the handler received that producer's frames in order
\* with none missing; a call that failed has no channel and no producer.
C25_OneProducerPerStream ==
    /\ Len(prods) = Cardinality(Established)
    /\ Len(chans) = Cardinality(Established)
    /\ \A r \in Requests \ Established : hs[r].chan = 0 /\ hs[r].got = <<>>
    /\ \A r \in Established :
          /\ hs[r].chan \in 1..Len(chans)
          /\ Cardinality(ProducersOf(hs[r].chan)) = 1
          /\ \A q \in Established \ {r} : hs[q].chan # hs[r].chan
          /\ \A k \in 1..Len(hs[r].got) :
                /\ hs[r].got[k].from \in ProducersOf(hs[r].chan)
                /\ hs[r].got[k].n = k
    /\ \A i \in 1..Len(chans) :
          \A k \in 1..Len(chans[i].buf) : chans[i].buf[k].from \in ProducersOf(i)
    /\ \A j \in 1..Len(prods) : prods[j].pc # "panic"

\* two streams established at once, each handler has received a frame and one is still receiving
C25_Witness ==
    /\ Cardinality(Established) >= 2
    /\ \A r \in Established : Len(hs[r].got) >= 1
    /\ \E r \in Established : hs[r].pc = "recv"

====
